---- MODULE Spec2Model ----
(***************************************************************************)
(* Model of cwatm/hydrological_modules/soil.py: soil.dynamic, the per-step *)
(* three-layer soil column water balance (Arno scheme, Van Genuchten       *)
(* conductivity, sub-stepped percolation).                                 *)
(*                                                                         *)
(* Numbers.  The code works on float arrays.  Here every depth (storage,   *)
(* flux) is an integer number of depth units, with the waterbalance        *)
(* tolerance 1e-6 m equal to Tol units, and every dimensionless fraction   *)
(* (relSat, satTerm, p, rws, adjRoot, capriseindex, percolationImp,        *)
(* cropKC) is an integer number of 1/Q parts.  A product or quotient is    *)
(* rounded down to the grid, in the order in which the code computes it.   *)
(*                                                                         *)
(* Arrays.  self.var.X is a function over Cells (the HRU index).  X[mask]  *)
(* = ... in the code becomes a function that keeps the old entry outside   *)
(* the mask.  An assert (...).all() ranges over every cell of the array.   *)
(***************************************************************************)
EXTENDS Integers, Sequences, FiniteSets, TLC

\* ------------------------------------------------------------------ grid

\* Number of 1/Q parts in the fraction 1.0 (resolution of the fixed point).
Q == 1000

\* soil.py:184 and :612 -- the tolerance 1e-6 m, in depth units.
Tol == 10

\* soil.py:462 -- self.model.NoSubSteps = 3
NoSubSteps == 3

\* soil.py:180 -- land_use_type < 4 selects the soil (bio) cells.
BioLimit == 4

\* soil.py:181 -- land_use_type == 2 is paddy irrigated land.
PaddyType == 2

\* the fraction n/d on the 1/Q grid
Frac(n, d) == (n * Q) \div d

Min(a, b) == IF a < b THEN a ELSE b
Max(a, b) == IF a > b THEN a ELSE b

\* a * b for a fraction b (np multiply, rounded down to the grid)
MulQ(a, b) == (a * b) \div Q

\* integer square root by bisection: the r with r*r <= x < (r+1)*(r+1)
RECURSIVE SqrtIter(_, _, _)
SqrtIter(x, lo, hi) ==
    IF lo >= hi THEN lo
    ELSE LET mid == (lo + hi + 1) \div 2
         IN  IF mid * mid <= x THEN SqrtIter(x, mid, hi)
             ELSE SqrtIter(x, lo, mid - 1)

\* np.sqrt of a fraction in [0, 1]
SqrtQ(x) == SqrtIter(x * Q, 0, Q)

\* x ** n for a fraction x and a whole exponent n
RECURSIVE PowQ(_, _)
PowQ(x, n) == IF n = 0 THEN Q ELSE MulQ(x, PowQ(x, n - 1))

\* x ** (num/den) for a fraction x; den is 1 or 2 in every parameter set
PowRat(x, num, den) == IF den = 1 THEN PowQ(x, num) ELSE SqrtQ(PowQ(x, num))

\* ------------------------------------------------ phase 1: paddy ponding

\* soil.py:183 -- natural_available_water_infiltration + actual_irrigation_consumption
availWaterSum(f) == f.natural_available_water_infiltration + f.actual_irrigation_consumption

\* soil.py:184 without the tolerance
InputContractStrict(f) == availWaterSum(f) >= 0

\* soil.py:184 -- assert (availWaterInfiltration + 1e-6 >= 0), one cell
InputContractOK(f) == availWaterSum(f) + Tol >= 0

\* soil.py:183 without the clamp of line 185
availWaterUnclamped(f) == availWaterSum(f)

\* soil.py:185 -- availWaterInfiltration[availWaterInfiltration < 0] = 0
availWaterClamped(f) == IF availWaterSum(f) < 0 THEN 0 ELSE availWaterSum(f)

\* soil.py:187,189 -- cropKC > 0.75: the paddy is flooded
Flooded(f) == f.cropKC > Frac(75, 100)

\* soil.py:189 -- topwater of a paddy cell after the available water is ponded
topwaterPonded(f, topwater, avail) ==
    IF Flooded(f) THEN topwater + avail ELSE topwater

\* soil.py:192 -- openWaterEvap of a paddy cell
openWaterEvapPaddy(f, topwater) == Min(Max(0, topwater), f.EWRef)

\* soil.py:198 without the release of topwater when the paddy is not flooded
availWaterPaddyRainOnly(f, topwater, avail) ==
    IF Flooded(f) THEN topwater ELSE avail

\* soil.py:198 -- availWaterInfiltration of a paddy cell
availWaterPaddy(f, topwater, avail) ==
    IF Flooded(f) THEN topwater ELSE topwater + avail

\* soil.py:201 without the subtraction of openWaterEvap
potBareSoilEvapPaddyFull(f, owe) == Max(0, f.potBareSoilEvap)

\* soil.py:201 -- potBareSoilEvap of a paddy cell
potBareSoilEvapPaddy(f, owe) == Max(0, f.potBareSoilEvap - owe)

\* soil.py:183-201 for one cell: [topwater, openWaterEvap, avail, potBareSoilEvap]
Phase1(lu, f, topwater) ==
    LET avail0 == availWaterClamped(f)
    IN  IF lu = PaddyType
        THEN LET t1  == topwaterPonded(f, topwater, avail0)
                 owe == openWaterEvapPaddy(f, t1)
                 t2  == t1 - owe
             IN  [topwater |-> t2, openWaterEvap |-> owe,
                  avail |-> availWaterPaddy(f, t2, avail0),
                  potBareSoilEvap |-> potBareSoilEvapPaddy(f, owe)]
        ELSE [topwater |-> topwater, openWaterEvap |-> f.openWaterEvap,
              avail |-> avail0, potBareSoilEvap |-> f.potBareSoilEvap]

\* --------------------------------- phase 2: capillary rise from groundwater

\* soil.py:205-214 without the overflow of layer 1 (lines 212-213)
Phase2WithoutRunoff(p, w, capillar) ==
    LET w3a == w.w3 + capillar
        w2a == w.w2 + (IF w3a > p.ws3 THEN w3a - p.ws3 ELSE 0)
        w3b == Min(p.ws3, w3a)
        w1a == w.w1 + (IF w2a > p.ws2 THEN w2a - p.ws2 ELSE 0)
        w2b == Min(p.ws2, w2a)
        w1b == Min(p.ws1, w1a)
    IN  [w1 |-> w1b, w2 |-> w2b, w3 |-> w3b, saverunofffromGW |-> 0]

\* soil.py:205-214 for one bio cell: [w1, w2, w3, saverunofffromGW]
Phase2(p, w, capillar) ==
    LET w3a == w.w3 + capillar
        w2a == w.w2 + (IF w3a > p.ws3 THEN w3a - p.ws3 ELSE 0)
        w3b == Min(p.ws3, w3a)
        w1a == w.w1 + (IF w2a > p.ws2 THEN w2a - p.ws2 ELSE 0)
        w2b == Min(p.ws2, w2a)
        save == IF w1a > p.ws1 THEN w1a - p.ws1 ELSE 0
        w1b == Min(p.ws1, w1a)
    IN  [w1 |-> w1b, w2 |-> w2b, w3 |-> w3b, saverunofffromGW |-> save]

\* ------------------------------------------------- phase 3: transpiration

\* soil.py:224 -- etpotMax = min(0.1 * (totalPotET * 1000.), 1.0); one metre is
\* Tol * 10^6 depth units, so 100 * totalPotET[m] = totalPotET / (Tol * 10^4)
etpotMax(f) == Min((f.totalPotET * Q) \div (Tol * 10000), Q)

\* soil.py:230-256 -- the soil water depletion fraction p of one bio cell
DepletionP(lu, p, f) ==
    LET e   == etpotMax(f)
        inv == (Q * Q) \div (Frac(76, 100) + (3 * e) \div 2)
        cgn == p.cropGroupNumber
        raw == IF lu \in {2, 3}
               THEN inv - Frac(4, 10) + (e - Frac(6, 10)) \div 4
               ELSE LET p0 == inv - Frac(1, 10) * (5 - cgn)
                    IN  IF 2 * cgn <= 5
                        THEN p0 + (e - Frac(6, 10)) \div (cgn * (cgn + 3))
                        ELSE p0
    IN  Max(Min(raw, Q), 0)

\* soil.py:260-262 -- wCrit of one layer
wCrit(pfrac, wfc, wwp) == ((Q - pfrac) * (wfc - wwp)) \div Q + wwp

\* soil.py:267-276 -- rws of one layer: divideValues(..., default=1.), clamped
\* to [0, 1], times adjRoot
rws(w, wwp, wcrit, adjRoot) ==
    LET r == IF wcrit - wwp = 0 THEN Q ELSE ((w - wwp) * Q) \div (wcrit - wwp)
    IN  MulQ(Max(Min(Q, r), 0), adjRoot)

\* soil.py:286 and the like -- FrostIndex > FrostIndexThreshold
Frozen(p, f) == f.FrostIndex > p.FrostIndexThreshold

\* soil.py:278,286 -- TaMax of one bio cell
TaMax(lu, p, f, w) ==
    LET pf == DepletionP(lu, p, f)
        r1 == rws(w.w1, p.wwp1, wCrit(pf, p.wfc1, p.wwp1), p.adjRoot1)
        r2 == rws(w.w2, p.wwp2, wCrit(pf, p.wfc2, p.wwp2), p.adjRoot2)
        r3 == rws(w.w3, p.wwp3, wCrit(pf, p.wfc3, p.wwp3), p.adjRoot3)
    IN  IF Frozen(p, f) THEN 0 ELSE MulQ(f.potTranspiration, r1 + r2 + r3)

\* soil.py:288-290 without the limit w - wwp
taUnlimited(tamax, adjRoot, w, wwp) == Max(MulQ(tamax, adjRoot), 0)

\* soil.py:288-290 -- ta of one layer
ta(tamax, adjRoot, w, wwp) == Max(Min(MulQ(tamax, adjRoot), w - wwp), 0)

\* soil.py:278-302 for one bio cell: [w1, w2, w3, actTransTotal]
Phase3(lu, p, f, w) ==
    LET tm  == TaMax(lu, p, f, w)
        ta1 == ta(tm, p.adjRoot1, w.w1, p.wwp1)
        ta2 == ta(tm, p.adjRoot2, w.w2, p.wwp2)
        ta3 == ta(tm, p.adjRoot3, w.w3, p.wwp3)
    IN  [w1 |-> w.w1 - ta1, w2 |-> w.w2 - ta2, w3 |-> w.w3 - ta3,
         actTransTotal |-> ta1 + ta2 + ta3]

\* ------------------------------------------ phase 4: bare soil evaporation

\* soil.py:309-314 without the limit potBareSoilEvap of line 309
actBareSoilEvapOfUnlimited(lu, p, f, potBareSoilEvap, w1, topwater) ==
    LET a == Max(0, w1 - p.wres1)
        b == IF Frozen(p, f) THEN 0 ELSE a
    IN  IF lu = PaddyType /\ topwater > 0 THEN 0 ELSE b

\* soil.py:309-314 -- actBareSoilEvap of one bio cell
actBareSoilEvapOf(lu, p, f, potBareSoilEvap, w1, topwater) ==
    LET a == Min(potBareSoilEvap, Max(0, w1 - p.wres1))
        b == IF Frozen(p, f) THEN 0 ELSE a
    IN  IF lu = PaddyType /\ topwater > 0 THEN 0 ELSE b

\* ------------------------------------- phase 5: infiltration and runoff

\* soil.py:321-324 -- relSat of one bio cell
relSatOf(p, w1, w2) == Min(((w1 + w2) * Q) \div (p.ws1 + p.ws2), Q)

\* soil.py:328,332 -- satAreaFrac
satAreaFracOf(p, relSat) == Max(Min(Q - PowQ(Q - relSat, p.arnoBeta), Q), 0)

\* soil.py:334-336 -- potInf = store - store * (1 - (1 - satAreaFrac) ** potBeta)
potInfOf(p, relSat) ==
    LET store == (p.ws1 + p.ws2) \div (p.arnoBeta + 1)
        frac  == PowRat(Q - satAreaFracOf(p, relSat), p.arnoBeta + 1, p.arnoBeta)
    IN  store - MulQ(store, Q - frac)

\* soil.py:346-352 -- prefFlow of one bio cell; cpf is the element of
\* self.var.cPrefFlow that the array expression pairs with this cell
prefFlowOf(lu, p, f, avail, relSat, cpf) ==
    LET a == MulQ(avail, PowQ(relSat, cpf))
        b == IF Frozen(p, f) THEN 0 ELSE a
        c == IF lu = PaddyType THEN 0 ELSE b
    IN  MulQ(c, Q - f.capriseindex)

\* soil.py:358-360 without the limit potInf
infiltrationOfUncapped(p, f, potInf, avail, prefFlow) ==
    IF Frozen(p, f) THEN 0 ELSE avail - prefFlow

\* soil.py:358 without the frost condition of line 360
infiltrationOfUnfrozen(p, f, potInf, avail, prefFlow) ==
    Min(potInf, avail - prefFlow)

\* soil.py:358,360 -- infiltration of one bio cell
infiltrationOf(p, f, potInf, avail, prefFlow) ==
    IF Frozen(p, f) THEN 0 ELSE Min(potInf, avail - prefFlow)

\* soil.py:363 with prefFlow left out of the subtraction
directRunoffOfWithoutPrefFlow(avail, infiltration, prefFlow) ==
    Max(0, avail - infiltration)

\* soil.py:363 -- directRunoff of one bio cell, before the paddy correction
directRunoffOf(avail, infiltration, prefFlow) ==
    Max(0, avail - infiltration - prefFlow)

\* soil.py:367-370 without the release of the runoff from topwater (line 372)
PaddyRunoffKeepsExcess(p, f, topwater, infiltration, directRunoff) ==
    LET t1 == Max(0, topwater - infiltration)
        h  == Max(0, t1 - p.maxtopwater)
        dr == IF Flooded(f) THEN h ELSE directRunoff
    IN  [topwater |-> t1, directRunoff |-> dr]

\* soil.py:367-372 -- paddy cell: [topwater, directRunoff]
PaddyRunoff(p, f, topwater, infiltration, directRunoff) ==
    LET t1 == Max(0, topwater - infiltration)
        h  == Max(0, t1 - p.maxtopwater)
        dr == IF Flooded(f) THEN h ELSE directRunoff
    IN  [topwater |-> Max(0, t1 - dr), directRunoff |-> dr]

\* soil.py:380-382 -- infiltration into layer 1, overflow into layer 2: [w1, w2]
InfiltrationCascade(p, w1, w2, infiltration) ==
    LET w1a == w1 + infiltration
        w2a == w2 + (IF w1a > p.ws1 THEN w1a - p.ws1 ELSE 0)
    IN  [w1 |-> Min(p.ws1, w1a), w2 |-> w2a]

\* ----------------------------- phase 6: capillary rise between the layers

\* soil.py:390-392, 440-442 -- availWater of one layer
availWaterOf(w, wres) == Max(0, w - wres)

\* soil.py:394-400, 448-455, 487-493 -- satTerm of one layer, in [0, 1]
satTermOf(availWater, ws, wres) ==
    Max(Min((availWater * Q) \div (ws - wres), Q), 0)

\* soil.py:407-408, 458-460, 496-498 -- Van Genuchten unsaturated conductivity
\*   KSat * sqrt(satTerm) * square(1 - (1 - satTerm ** (1/m)) ** m),
\*   m = lambda / (lambda + 1)
kUnSatOf(KSat, satTerm, lambda) ==
    LET inner == PowRat(Q - PowRat(satTerm, lambda + 1, lambda), lambda, lambda + 1)
        sq    == MulQ(Q - inner, Q - inner)
    IN  (KSat * SqrtQ(satTerm) * sq) \div (Q * Q)

\* soil.py:412-413 -- satTermFC of one layer (not clamped)
satTermFCOf(w, wres, wfc) == (Max(0, w - wres) * Q) \div (wfc - wres)

\* soil.py:415-416 -- capRise into a layer from the one below
capRiseOf(satTermFC, kUnSatBelow, kunSatFC) ==
    Min(Max(0, ((Q - satTermFC) * kUnSatBelow) \div Q), kunSatFC)

\* soil.py:390-429 for one bio cell: [w1, w2, w3, capRise1, capRise2]
Phase6(p, w) ==
    LET availWater2 == availWaterOf(w.w2, p.wres2)
        availWater3 == availWaterOf(w.w3, p.wres3)
        kUnSat2 == kUnSatOf(p.KSat2, satTermOf(availWater2, p.ws2, p.wres2), p.lambda2)
        kUnSat3 == kUnSatOf(p.KSat3, satTermOf(availWater3, p.ws3, p.wres3), p.lambda3)
        capRise1 == capRiseOf(satTermFCOf(w.w1, p.wres1, p.wfc1), kUnSat2, p.kunSatFC12)
        capRise2 == Min(capRiseOf(satTermFCOf(w.w2, p.wres2, p.wfc2), kUnSat3, p.kunSatFC23),
                        availWater3)
    IN  [w1 |-> w.w1 + capRise1, w2 |-> w.w2 - capRise1 + capRise2,
         w3 |-> w.w3 - capRise2, capRise1 |-> capRise1, capRise2 |-> capRise2]

\* ----------------------------------------- phase 7: sub-stepped percolation

\* soil.py:501-503 -- the three sub-step fluxes; kUnSat * DtSub is kUnSat / NoSubSteps
subperc(availWater, kUnSat, cap) == Min(availWater, Min(kUnSat \div NoSubSteps, cap))

subperc3toGWOf(f, availWater3, kUnSat3) ==
    MulQ(Min(availWater3, Min(kUnSat3 \div NoSubSteps, availWater3)), Q - f.capriseindex)

\* soil.py:440-480 -- the loop's variables on entry, for one bio cell
PercInit(p, w) ==
    LET a1 == availWaterOf(w.w1, p.wres1)
        a2 == availWaterOf(w.w2, p.wres2)
        a3 == availWaterOf(w.w3, p.wres3)
    IN  [availWater1 |-> a1, availWater2 |-> a2, availWater3 |-> a3,
         capLayer2 |-> p.ws2 - w.w2, capLayer3 |-> p.ws3 - w.w3,
         kUnSat1 |-> kUnSatOf(p.KSat1, satTermOf(a1, p.ws1, p.wres1), p.lambda1),
         kUnSat2 |-> kUnSatOf(p.KSat2, satTermOf(a2, p.ws2, p.wres2), p.lambda2),
         kUnSat3 |-> kUnSatOf(p.KSat3, satTermOf(a3, p.ws3, p.wres3), p.lambda3),
         wtemp1 |-> w.w1, wtemp2 |-> w.w2, wtemp3 |-> w.w3,
         perc1to2 |-> 0, perc2to3 |-> 0, perc3toGW |-> 0]

\* soil.py:485-498 without the recomputation in the later passes
kUnSatLoopKept(p, L, i) ==
    [kUnSat1 |-> L.kUnSat1, kUnSat2 |-> L.kUnSat2, kUnSat3 |-> L.kUnSat3]

\* soil.py:487-498 -- the conductivities of pass i: those of lines 458-460 in
\* the first pass, recomputed from wtemp in the later ones
kUnSatLoop(p, L, i) ==
    IF i > 0
    THEN [kUnSat1 |-> kUnSatOf(p.KSat1, satTermOf(Max(0, L.wtemp1 - p.wres1), p.ws1, p.wres1), p.lambda1),
          kUnSat2 |-> kUnSatOf(p.KSat2, satTermOf(Max(0, L.wtemp2 - p.wres2), p.ws2, p.wres2), p.lambda2),
          kUnSat3 |-> kUnSatOf(p.KSat3, satTermOf(Max(0, L.wtemp3 - p.wres3), p.ws3, p.wres3), p.lambda3)]
    ELSE [kUnSat1 |-> L.kUnSat1, kUnSat2 |-> L.kUnSat2, kUnSat3 |-> L.kUnSat3]

\* soil.py:501-503 -- the three fluxes of one pass
subpercOf(f, L, k) ==
    [subperc1to2  |-> subperc(L.availWater1, k.kUnSat1, L.capLayer2),
     subperc2to3  |-> subperc(L.availWater2, k.kUnSat2, L.capLayer3),
     subperc3toGW |-> subperc3toGWOf(f, L.availWater3, k.kUnSat3)]

\* soil.py:506-521 -- the loop's variables after the fluxes s of one pass
PercUpdate(p, L, k, s) ==
    LET a1 == L.availWater1 - s.subperc1to2
        a2 == L.availWater2 + s.subperc1to2 - s.subperc2to3
        a3 == L.availWater3 + s.subperc2to3 - s.subperc3toGW
    IN  [availWater1 |-> a1, availWater2 |-> a2, availWater3 |-> a3,
         capLayer2 |-> p.ws2 - (a2 + p.wres2), capLayer3 |-> p.ws3 - (a3 + p.wres3),
         kUnSat1 |-> k.kUnSat1, kUnSat2 |-> k.kUnSat2, kUnSat3 |-> k.kUnSat3,
         wtemp1 |-> a1 + p.wres1, wtemp2 |-> a2 + p.wres2, wtemp3 |-> a3 + p.wres3,
         perc1to2 |-> L.perc1to2 + s.subperc1to2,
         perc2to3 |-> L.perc2to3 + s.subperc2to3,
         perc3toGW |-> L.perc3toGW + s.subperc3toGW]

\* soil.py:501-521 -- one pass with the conductivities k
PercPass(p, f, L, k) == PercUpdate(p, L, k, subpercOf(f, L, k))

\* soil.py:485-521 -- one pass of the loop body, i the loop index
PercSubStep(p, f, L, i) == PercPass(p, f, L, kUnSatLoop(p, L, i))

\* soil.py:484 -- for i in range(NoSubSteps): the loop's variables after n passes
RECURSIVE PercLoop(_, _, _, _)
PercLoop(p, f, w, n) ==
    IF n = 0 THEN PercInit(p, w)
    ELSE PercSubStep(p, f, PercLoop(p, f, w, n - 1), n - 1)

\* soil.py:551-552 -- perc1to2 and perc2to3 are set to 0 when the soil is frozen
percFrost(p, f, perc) == IF Frozen(p, f) THEN 0 ELSE perc

\* soil.py:551-560 -- the commit of the loop's sums L to the storages w
PercCommit(p, f, w, L) ==
    LET p12 == percFrost(p, f, L.perc1to2)
        p23 == percFrost(p, f, L.perc2to3)
    IN  [w1 |-> w.w1 - p12, w2 |-> w.w2 + p12 - p23,
         w3 |-> w.w3 + p23 - L.perc3toGW,
         perc1to2 |-> p12, perc2to3 |-> p23, perc3toGW |-> L.perc3toGW]

\* soil.py:440-560 for one bio cell: [w1, w2, w3, perc1to2, perc2to3, perc3toGW]
Phase7(p, f, w) == PercCommit(p, f, w, PercLoop(p, f, w, NoSubSteps))

\* --------------------------------------- phase 8: recharge and interflow

\* soil.py:597 -- interflow
interflowOf(p, toGWorInterflow) == MulQ(p.percolationImp, toGWorInterflow)

\* soil.py:600 with percolationImp in place of 1 - percolationImp
groundwater_rechargeOfImpeded(p, toGWorInterflow) == MulQ(p.percolationImp, toGWorInterflow)

\* soil.py:600 -- groundwater_recharge
groundwater_rechargeOf(p, toGWorInterflow) == MulQ(Q - p.percolationImp, toGWorInterflow)

\* ------------------------------------------------- one cell, all phases

\* the three storages of a record
W(r) == [w1 |-> r.w1, w2 |-> r.w2, w3 |-> r.w3]

\* soil.py:180 with <= in place of <
IsBioInclusive(lu) == lu <= BioLimit

\* soil.py:180 -- the cell is in bioarea
IsBio(lu) == lu < BioLimit

\* The locals of one cell of bioarea are gathered phase by phase in a record r;
\* st holds the cell's self.var entries on entry, cpf its cPrefFlow exponent.

\* soil.py:183-201
PondingLocals(ph1) ==
    [topwater1 |-> ph1.topwater, openWaterEvap |-> ph1.openWaterEvap,
     avail |-> ph1.avail, potBareSoilEvap |-> ph1.potBareSoilEvap]

\* soil.py:205-214
GroundwaterLocals(r, gw) ==
    r @@ [wGW |-> W(gw), saverunofffromGW |-> gw.saverunofffromGW]

\* soil.py:278-302
TranspirationLocals(r, tr) ==
    r @@ [wTa |-> W(tr), actTransTotal |-> tr.actTransTotal]

\* soil.py:309-316
EvaporationLocals(r, evap) ==
    r @@ [wEv |-> [w1 |-> r.wTa.w1 - evap, w2 |-> r.wTa.w2, w3 |-> r.wTa.w3],
          actBareSoilEvap |-> evap]

\* soil.py:321-324
RelSatLocals(r, relSat) == r @@ [relSat |-> relSat]

\* soil.py:328-352
PrefFlowLocals(r, potInf, prefFlow) ==
    r @@ [potInf |-> potInf, prefFlow |-> prefFlow]

\* soil.py:358-360
InfiltrationLocals(r, infiltration) == r @@ [infiltration |-> infiltration]

\* soil.py:363-374
RunoffLocals(r, pad) ==
    r @@ [directRunoff |-> pad.directRunoff + r.saverunofffromGW,
          topwater |-> pad.topwater]

\* soil.py:380-382
CascadeLocals(r, inf) ==
    r @@ [wInf |-> [w1 |-> inf.w1, w2 |-> inf.w2, w3 |-> r.wEv.w3]]

\* soil.py:390-429
CapRiseLocals(r, cap) ==
    r @@ [wCap |-> W(cap), capRise1 |-> cap.capRise1, capRise2 |-> cap.capRise2]

\* soil.py:440-560
PercolationLocals(r, perc) ==
    r @@ [wPerc |-> W(perc), perc1to2 |-> perc.perc1to2,
          perc2to3 |-> perc.perc2to3, perc3toGW |-> perc.perc3toGW]

\* soil.py:584-600 without openWaterEvap in the sum of line 584
RechargeLocalsWithoutOpenWater(p, st, r, toGWorInterflow) ==
    r @@ [actualET |-> st.actualET + r.actBareSoilEvap + r.actTransTotal,
          interflow |-> interflowOf(p, toGWorInterflow),
          groundwater_recharge |-> groundwater_rechargeOf(p, toGWorInterflow)]

\* soil.py:584-600
RechargeLocals(p, st, r, toGWorInterflow) ==
    r @@ [actualET |-> st.actualET + r.actBareSoilEvap + r.openWaterEvap
                       + r.actTransTotal,
          interflow |-> interflowOf(p, toGWorInterflow),
          groundwater_recharge |-> groundwater_rechargeOf(p, toGWorInterflow)]

\* soil.py:183-316 for one cell of bioarea
BioCellToEvaporation(lu, p, f, st) ==
    LET r1 == PondingLocals(Phase1(lu, f, st.topwater))
        r2 == GroundwaterLocals(r1, Phase2(p, W(st), f.capillar))
        r3 == TranspirationLocals(r2, Phase3(lu, p, f, r2.wGW))
    IN  EvaporationLocals(r3, actBareSoilEvapOf(lu, p, f, r3.potBareSoilEvap,
                                                r3.wTa.w1, r3.topwater1))

\* soil.py:321-360 for one cell of bioarea
BioCellToInfiltration(lu, p, f, cpf, r4) ==
    LET r5 == RelSatLocals(r4, relSatOf(p, r4.wEv.w1, r4.wEv.w2))
        r6 == PrefFlowLocals(r5, potInfOf(p, r5.relSat),
                             prefFlowOf(lu, p, f, r5.avail, r5.relSat, cpf))
        r7 == InfiltrationLocals(r6, infiltrationOf(p, f, r6.potInf, r6.avail,
                                                    r6.prefFlow))
    IN  r7

\* soil.py:363-382 for one cell of bioarea
BioCellToCascade(lu, p, f, r7) ==
    LET dr0 == directRunoffOf(r7.avail, r7.infiltration, r7.prefFlow)
        r8  == RunoffLocals(r7, IF lu = PaddyType
                                THEN PaddyRunoff(p, f, r7.topwater1, r7.infiltration, dr0)
                                ELSE [topwater |-> r7.topwater1, directRunoff |-> dr0])
    IN  CascadeLocals(r8, InfiltrationCascade(p, r8.wEv.w1, r8.wEv.w2, r8.infiltration))

\* soil.py:390-600 for one cell of bioarea
BioCellToRecharge(p, f, st, r9) ==
    LET r10 == CapRiseLocals(r9, Phase6(p, r9.wInf))
        r11 == PercolationLocals(r10, Phase7(p, f, r10.wCap))
    IN  RechargeLocals(p, st, r11, r11.perc3toGW + r11.prefFlow)

\* soil.py:183-600 for one cell of bioarea, every assignment in source order
BioCell(lu, p, f, st, cpf) ==
    BioCellToRecharge(p, f, st,
        BioCellToCascade(lu, p, f,
            BioCellToInfiltration(lu, p, f, cpf,
                BioCellToEvaporation(lu, p, f, st))))

\* A cell outside bioarea: no statement of soil.dynamic indexes it.  The
\* full_compressed(0) arrays hold 0 there, openWaterEvap is the argument's entry.
OtherCell(f, st) ==
    [topwater1 |-> st.topwater, openWaterEvap |-> f.openWaterEvap,
     avail |-> availWaterClamped(f), potBareSoilEvap |-> f.potBareSoilEvap,
     wGW |-> W(st), saverunofffromGW |-> 0,
     wTa |-> W(st), actTransTotal |-> st.actTransTotal,
     wEv |-> W(st), actBareSoilEvap |-> st.actBareSoilEvap,
     relSat |-> 0, potInf |-> 0, prefFlow |-> 0, infiltration |-> 0,
     directRunoff |-> 0, topwater |-> st.topwater,
     wInf |-> W(st), wCap |-> W(st), capRise1 |-> 0, capRise2 |-> 0,
     wPerc |-> W(st), perc1to2 |-> 0, perc2to3 |-> 0, perc3toGW |-> 0,
     actualET |-> st.actualET, interflow |-> 0, groundwater_recharge |-> 0]

CellRun(lu, p, f, st, cpf) ==
    IF IsBio(lu) THEN BioCell(lu, p, f, st, cpf) ELSE OtherCell(f, st)

\* ------------------------------------------------------------- the state

\* the cells (HRUs), array positions 1..2
Cells == {1, 2}

\* the largest number of successive calls of soil.dynamic
MaxSteps == 2

VARIABLES
    land_use_type,    \* self.var.land_use_type, static
    soil,             \* the static per-cell parameter arrays, one record per cell
    cPrefFlow,        \* self.var.cPrefFlow: [scalar, v] -- a number or an array
    w1, w2, w3,       \* self.var.w1, w2, w3
    topwater,         \* self.var.topwater
    actualET,         \* self.var.actualET
    actTransTotal,    \* self.var.actTransTotal
    actBareSoilEvap,  \* self.var.actBareSoilEvap
    forcing,          \* the arguments and driving arrays of the last call
    pre,              \* self.var entries on entry of the last call
    local,            \* the local arrays of the last call, one record per cell
    raisedLine,       \* 0: the last call returned; else the line that raised
    nsteps            \* number of calls so far

vars == <<land_use_type, soil, cPrefFlow, w1, w2, w3, topwater, actualET,
          actTransTotal, actBareSoilEvap, forcing, pre, local, raisedLine, nsteps>>

\* ------------------------------------------------- parameters and inputs

\* a deep soil: the static arrays of landcoverType / soil.initial, one cell
SoilDeep ==
    [ws1 |-> 200, wres1 |-> 20, wwp1 |-> 60, wfc1 |-> 140,
     ws2 |-> 300, wres2 |-> 30, wwp2 |-> 90, wfc2 |-> 210,
     ws3 |-> 400, wres3 |-> 40, wwp3 |-> 120, wfc3 |-> 280,
     KSat1 |-> 300, KSat2 |-> 300, KSat3 |-> 300,
     lambda1 |-> 1, lambda2 |-> 1, lambda3 |-> 1,
     kunSatFC12 |-> 10, kunSatFC23 |-> 10,
     adjRoot1 |-> Frac(5, 10), adjRoot2 |-> Frac(3, 10), adjRoot3 |-> Frac(2, 10),
     arnoBeta |-> 1, cropGroupNumber |-> 2, percolationImp |-> Frac(1, 4),
     maxtopwater |-> 50, FrostIndexThreshold |-> 56]

\* a thin soil with a high conductivity
SoilThin ==
    [ws1 |-> 200, wres1 |-> 20, wwp1 |-> 60, wfc1 |-> 140,
     ws2 |-> 200, wres2 |-> 20, wwp2 |-> 60, wfc2 |-> 140,
     ws3 |-> 100, wres3 |-> 10, wwp3 |-> 30, wfc3 |-> 70,
     KSat1 |-> 600, KSat2 |-> 600, KSat3 |-> 600,
     lambda1 |-> 1, lambda2 |-> 1, lambda3 |-> 1,
     kunSatFC12 |-> 10, kunSatFC23 |-> 10,
     adjRoot1 |-> Frac(5, 10), adjRoot2 |-> Frac(3, 10), adjRoot3 |-> Frac(2, 10),
     arnoBeta |-> 2, cropGroupNumber |-> 4, percolationImp |-> 0,
     maxtopwater |-> 50, FrostIndexThreshold |-> 56]

SoilMaps == {<<SoilDeep, SoilThin>>}

\* soil.py:180-182 -- land use types: 0 forest, 1 grassland, 2 paddy irrigated,
\* 3 non-paddy irrigated, 4 and 5 no soil (sealed, water)
LandUseMaps == {<<0, 2>>, <<3, 1>>, <<2, 4>>, <<5, 3>>}

\* soil.py:138 -- cPrefFlow = to_HRU(loadmap('preferentialFlowConstant')): a
\* number when the setting is a number, an array over the cells when it is a map
CPrefFlows == {[scalar |-> TRUE, v |-> <<4, 4>>], [scalar |-> FALSE, v |-> <<2, 4>>]}

\* start condition of the storages: position of w between wres (0) and ws (4)
Level(p, i, k) ==
    LET lo == CASE i = 1 -> p.wres1 [] i = 2 -> p.wres2 [] OTHER -> p.wres3
        hi == CASE i = 1 -> p.ws1 [] i = 2 -> p.ws2 [] OTHER -> p.ws3
    IN  lo + ((hi - lo) * k) \div 4

StartLevels == {<<1, 1, 1>>, <<3, 3, 2>>, <<4, 4, 4>>}

\* one cell's driving values for one call.  openWaterEvap is the array that
\* line 192 fills for the paddy cells; it arrives holding 0 in every cell.
Fc(nat, irr, gw, et, fi, kc) ==
    [natural_available_water_infiltration |-> nat,
     actual_irrigation_consumption |-> irr,
     capillar |-> gw[1], capriseindex |-> gw[2],
     potTranspiration |-> et[1], potBareSoilEvap |-> et[2],
     totalPotET |-> et[3], EWRef |-> et[4],
     openWaterEvap |-> 0,
     FrostIndex |-> fi, cropKC |-> kc]

\* rain with irrigation or none, frost or none, paddy flooded or not; with
\* groundwater rise and evaporative demand both absent or both present
ForcingsMain ==
    { Fc(a[1], a[2], ge[1], ge[2], fi, kc) :
        a  \in {<<0, 0>>, <<60, 80>>},
        ge \in {<< <<0, 0>>, <<0, 0, 0, 0>> >>,
                << <<150, Frac(1, 2)>>, <<30, 10, 50000, 20>> >>},
        fi \in {0, 100},
        kc \in {Frac(5, 10), Frac(8, 10)} }

\* rain and evaporative demand without groundwater rise; the bare soil demand
\* exceeds the open water evaporation and what layer 1 can give
ForcingsDry ==
    { Fc(60, 80, <<0, 0>>, <<30, 60, 50000, 20>>, fi, kc) :
        fi \in {0, 100}, kc \in {Frac(5, 10), Frac(8, 10)} }

\* upstream rounding noise: a negative sum inside and outside the tolerance
ForcingsNegative ==
    { Fc(a, 0, <<0, 0>>, <<30, 10, 50000, 20>>, 0, Frac(5, 10)) :
        a \in {0 - (Tol \div 2), 0 - 2 * Tol} }

Forcings == ForcingsMain \cup ForcingsDry \cup ForcingsNegative

\* irrigation water is consumed on irrigated land only (types 2 and 3)
ForcingArray(f, lut) ==
    [c \in Cells |->
        IF lut[c] \in {2, 3} THEN f
        ELSE [f EXCEPT !.actual_irrigation_consumption = 0]]

ZeroForcing == Fc(0, 0, <<0, 0>>, <<0, 0, 0, 0>>, 0, 0)

\* ------------------------------------------------------- soil.dynamic

\* soil.py:180 -- bioarea = np.where(land_use_type < 4)[0]: the soil cells in
\* array order
RECURSIVE bioareaUpTo(_, _)
bioareaUpTo(lut, n) ==
    IF n = 0 THEN <<>>
    ELSE IF IsBio(lut[n]) THEN Append(bioareaUpTo(lut, n - 1), n)
         ELSE bioareaUpTo(lut, n - 1)

bioarea(lut) == bioareaUpTo(lut, Cardinality(Cells))

\* position of cell c in the compressed arrays X[bioarea]
PositionIn(seq, c) == CHOOSE j \in 1..Len(seq) : seq[j] = c

\* soil.py:346 -- prefFlow[bioarea] = availWaterInfiltration[bioarea] * relSat **
\* self.var.cPrefFlow.  relSat has one entry per cell of bioarea; cPrefFlow is not
\* indexed with bioarea.  numpy pairs the entries by position when the two lengths
\* agree, repeats a length-1 operand, and raises ValueError otherwise (also when
\* the product has more entries than prefFlow[bioarea]).
PrefFlowShapeOK(cpf, lut) ==
    \/ cpf.scalar
    \/ Len(cpf.v) = Len(bioarea(lut))
    \/ Len(cpf.v) = 1

\* the exponent that line 346 applies to cell c of bioarea
cPrefFlowAt(cpf, lut, c) ==
    IF cpf.scalar \/ Len(cpf.v) = 1 THEN cpf.v[1]
    ELSE cpf.v[PositionIn(bioarea(lut), c)]

\* self.var entries of cell c of the model object m
CellState(m, c) ==
    [w1 |-> m.w1[c], w2 |-> m.w2[c], w3 |-> m.w3[c], topwater |-> m.topwater[c],
     actualET |-> m.actualET[c], actTransTotal |-> m.actTransTotal[c],
     actBareSoilEvap |-> m.actBareSoilEvap[c]]

\* the local arrays of cells 1..n for one call with the driving arrays fa
RECURSIVE LocalsUpTo(_, _, _)
LocalsUpTo(m, fa, n) ==
    IF n = 0 THEN <<>>
    ELSE Append(LocalsUpTo(m, fa, n - 1),
                CellRun(m.land_use_type[n], m.soil[n], fa[n], CellState(m, n),
                        IF IsBio(m.land_use_type[n])
                           /\ PrefFlowShapeOK(m.cPrefFlow, m.land_use_type)
                        THEN cPrefFlowAt(m.cPrefFlow, m.land_use_type, n) ELSE 0))

\* every local array of one call with the driving arrays fa, by cell
Locals(m, fa) == LocalsUpTo(m, fa, Cardinality(Cells))

\* The first statement of soil.dynamic that raises, as its line; 0 when the
\* call returns.  The asserts at 403-404, 423-425, 478-480 and 555 repeat a
\* condition that an earlier assert has checked on the same values.
RaisedLine(m, fa, R) ==
    CASE \E c \in Cells : ~InputContractOK(fa[c])  -> 184
      [] \E c \in Cells : R[c].topwater1 < 0       -> 195
      [] \E c \in Cells : R[c].wGW.w1 < 0          -> 216
      [] \E c \in Cells : R[c].wGW.w2 < 0          -> 217
      [] \E c \in Cells : R[c].wGW.w3 < 0          -> 218
      [] \E c \in Cells : R[c].wTa.w1 < 0          -> 298
      [] \E c \in Cells : R[c].wTa.w2 < 0          -> 299
      [] \E c \in Cells : R[c].wTa.w3 < 0          -> 300
      [] ~PrefFlowShapeOK(m.cPrefFlow, m.land_use_type) -> 346
      [] \E c \in Cells : R[c].wInf.w1 < 0         -> 385
      [] \E c \in Cells : R[c].wInf.w2 < 0         -> 386
      [] \E c \in Cells : R[c].wInf.w3 < 0         -> 387
      [] \E c \in Cells : R[c].wCap.w1 < 0         -> 431
      [] \E c \in Cells : R[c].wCap.w2 < 0         -> 432
      [] \E c \in Cells : R[c].wCap.w3 < 0         -> 433
      [] \E c \in Cells : R[c].wPerc.w1 < 0        -> 557
      [] \E c \in Cells : R[c].wPerc.w2 < 0        -> 559
      [] \E c \in Cells : R[c].wPerc.w3 < 0        -> 561
      [] OTHER -> 0

\* whether the statement at line n has been executed when the call ends at `line`
Done(line, n) == line = 0 \/ line > n

\* self.var.w1 when the call ends (returns, or raises at `line`)
w1After(line, r, old) ==
    IF Done(line, 556) THEN r.wPerc.w1
    ELSE IF Done(line, 427) THEN r.wCap.w1
    ELSE IF Done(line, 382) THEN r.wInf.w1
    ELSE IF Done(line, 316) THEN r.wEv.w1
    ELSE IF Done(line, 294) THEN r.wTa.w1
    ELSE IF Done(line, 214) THEN r.wGW.w1
    ELSE old

w2After(line, r, old) ==
    IF Done(line, 558) THEN r.wPerc.w2
    ELSE IF Done(line, 428) THEN r.wCap.w2
    ELSE IF Done(line, 381) THEN r.wInf.w2
    ELSE IF Done(line, 295) THEN r.wTa.w2
    ELSE IF Done(line, 211) THEN r.wGW.w2
    ELSE old

w3After(line, r, old) ==
    IF Done(line, 560) THEN r.wPerc.w3
    ELSE IF Done(line, 429) THEN r.wCap.w3
    ELSE IF Done(line, 296) THEN r.wTa.w3
    ELSE IF Done(line, 208) THEN r.wGW.w3
    ELSE old

topwaterAfter(line, r, old) ==
    IF Done(line, 372) THEN r.topwater
    ELSE IF Done(line, 193) THEN r.topwater1
    ELSE old

\* the model object m after the statements of one call up to `line` have run
\* with the local arrays R
Executed(m, fa, R, line) ==
    [land_use_type |-> m.land_use_type, soil |-> m.soil, cPrefFlow |-> m.cPrefFlow,
     w1 |-> [c \in Cells |-> w1After(line, R[c], m.w1[c])],
     w2 |-> [c \in Cells |-> w2After(line, R[c], m.w2[c])],
     w3 |-> [c \in Cells |-> w3After(line, R[c], m.w3[c])],
     topwater |-> [c \in Cells |-> topwaterAfter(line, R[c], m.topwater[c])],
     actTransTotal |-> [c \in Cells |->
        IF Done(line, 302) THEN R[c].actTransTotal ELSE m.actTransTotal[c]],
     actBareSoilEvap |-> [c \in Cells |->
        IF Done(line, 314) THEN R[c].actBareSoilEvap ELSE m.actBareSoilEvap[c]],
     actualET |-> [c \in Cells |->
        IF Done(line, 584) THEN R[c].actualET ELSE m.actualET[c]],
     forcing |-> fa,
     pre |-> [c \in Cells |-> CellState(m, c)],
     local |-> R,
     raisedLine |-> line]

\* soil.py:162-626 -- one call of soil.dynamic on the model object m with the
\* driving arrays fa: the object afterwards, with the call's locals and outcome
dynamicOf(m, fa) ==
    CHOOSE n \in { Executed(m, fa, R, RaisedLine(m, fa, R)) : R \in {Locals(m, fa)} } : TRUE

\* the model object of this run
Self ==
    [land_use_type |-> land_use_type, soil |-> soil, cPrefFlow |-> cPrefFlow,
     w1 |-> w1, w2 |-> w2, w3 |-> w3, topwater |-> topwater,
     actualET |-> actualET, actTransTotal |-> actTransTotal,
     actBareSoilEvap |-> actBareSoilEvap]

\* one call of soil.dynamic in this run
dynamic(fa) ==
    \E n \in {dynamicOf(Self, fa)} :
        /\ w1' = n.w1
        /\ w2' = n.w2
        /\ w3' = n.w3
        /\ topwater' = n.topwater
        /\ actTransTotal' = n.actTransTotal
        /\ actBareSoilEvap' = n.actBareSoilEvap
        /\ actualET' = n.actualET
        /\ forcing' = n.forcing
        /\ pre' = n.pre
        /\ local' = n.local
        /\ raisedLine' = n.raisedLine
        /\ nsteps' = nsteps + 1
        /\ UNCHANGED <<land_use_type, soil, cPrefFlow>>

\* start condition of the storages and of the ponding for a land use map and
\* a soil map: ponding on paddy cells only
StartObject(lut, sl, cpf, lv) ==
    [land_use_type |-> lut, soil |-> sl, cPrefFlow |-> cpf,
     w1 |-> [c \in Cells |-> Level(sl[c], 1, lv[1])],
     w2 |-> [c \in Cells |-> Level(sl[c], 2, lv[2])],
     w3 |-> [c \in Cells |-> Level(sl[c], 3, lv[3])],
     topwater |-> [c \in Cells |-> IF lut[c] = PaddyType /\ lv[1] > 1 THEN 40 ELSE 0],
     actualET |-> [c \in Cells |-> 0],
     actTransTotal |-> [c \in Cells |-> 0],
     actBareSoilEvap |-> [c \in Cells |-> 0]]

\* The model object after construction: static maps loaded, storages at a start
\* condition inside [wres, ws], nothing called yet.
Init ==
    /\ land_use_type \in LandUseMaps
    /\ soil \in SoilMaps
    /\ cPrefFlow \in CPrefFlows
    /\ \E lv \in StartLevels :
        \E m \in {StartObject(land_use_type, soil, cPrefFlow, lv)} :
          /\ w1 = m.w1
          /\ w2 = m.w2
          /\ w3 = m.w3
          /\ topwater = m.topwater
          /\ actualET = m.actualET
          /\ actTransTotal = m.actTransTotal
          /\ actBareSoilEvap = m.actBareSoilEvap
          /\ pre = [c \in Cells |-> CellState(m, c)]
          /\ local = [c \in Cells |-> OtherCell(ZeroForcing, CellState(m, c))]
    /\ forcing = [c \in Cells |-> ZeroForcing]
    /\ raisedLine = 0
    /\ nsteps = 0

\* The time loop calls soil.dynamic once per step; an exception ends the run.
Step ==
    /\ nsteps < MaxSteps
    /\ raisedLine = 0
    /\ \E f \in Forcings : dynamic(ForcingArray(f, land_use_type))

Next == Step

Spec == Init /\ [][Next]_vars

\* ------------------------------------------------- what a call leaves behind

\* soil.py:626 -- the last call reached its return statement
Returned == nsteps > 0 /\ raisedLine = 0

\* soil.py:175-178 -- w1_pre, w2_pre, w3_pre, topwater_pre: the model object as
\* it was on entry of the last call
Before ==
    [Self EXCEPT !.w1 = [c \in Cells |-> pre[c].w1],
                 !.w2 = [c \in Cells |-> pre[c].w2],
                 !.w3 = [c \in Cells |-> pre[c].w3],
                 !.topwater = [c \in Cells |-> pre[c].topwater],
                 !.actualET = [c \in Cells |-> pre[c].actualET],
                 !.actTransTotal = [c \in Cells |-> pre[c].actTransTotal],
                 !.actBareSoilEvap = [c \in Cells |-> pre[c].actBareSoilEvap]]

\* soil.py:607 -- influxes of the cellwise waterBalanceCheck
influxes(c) ==
    forcing[c].natural_available_water_infiltration + forcing[c].capillar
    + forcing[c].actual_irrigation_consumption

\* soil.py:609 -- outfluxes of the cellwise waterBalanceCheck
outfluxes(c) ==
    local[c].directRunoff + local[c].perc3toGW + local[c].prefFlow
    + actTransTotal[c] + actBareSoilEvap[c] + local[c].openWaterEvap

\* soil.py:610 -- prestorages
prestorages(c) == pre[c].w1 + pre[c].w2 + pre[c].w3 + pre[c].topwater

\* soil.py:611 -- poststorages
poststorages(c) == w1[c] + w2[c] + w3[c] + topwater[c]

\* soil.py:605-613 -- the balance error that waterBalanceCheck compares with
\* the tolerance
balanceError(c) ==
    LET d == influxes(c) - outfluxes(c) - (poststorages(c) - prestorages(c))
    IN  IF d < 0 THEN 0 - d ELSE d

\* the storages st of a cell with the parameters p are inside their bounds
InBounds(p, st) ==
    /\ p.wres1 <= st.w1 /\ st.w1 <= p.ws1
    /\ p.wres2 <= st.w2 /\ st.w2 <= p.ws2
    /\ p.wres3 <= st.w3 /\ st.w3 <= p.ws3
    /\ st.topwater >= 0

\* every soil cell was inside its bounds on entry of the last call
PreInBounds ==
    \A c \in Cells : IsBio(land_use_type[c]) => InBounds(soil[c], pre[c])

\* the driving fluxes of the last call are non-negative, the two indices in [0, 1]
ContractMet ==
    \A c \in Cells :
        /\ forcing[c].natural_available_water_infiltration >= 0
        /\ forcing[c].actual_irrigation_consumption >= 0
        /\ forcing[c].capillar >= 0
        /\ forcing[c].potTranspiration >= 0
        /\ forcing[c].potBareSoilEvap >= 0
        /\ forcing[c].EWRef >= 0
        /\ forcing[c].capriseindex >= 0 /\ forcing[c].capriseindex <= Q
        /\ soil[c].percolationImp >= 0 /\ soil[c].percolationImp <= Q

\* ---------------------------------------------------------------- C1

\* C1 -- mass conservation: after every call that returns, for every soil cell,
\* (natural available water + irrigation consumption + capillary rise) minus
\* (directRunoff + perc3toGW + prefFlow + actTransTotal + actBareSoilEvap +
\* openWaterEvap) equals the change of w1 + w2 + w3 + topwater, within Tol.
C1_MassConservation ==
    Returned =>
        \A c \in Cells : IsBio(land_use_type[c]) => balanceError(c) <= Tol

\* a call returned with a flooded, frozen paddy cell that received water and
\* spilled some of it, and a second call returned after it
C1_FloodedFrozenPaddyBalanced ==
    /\ Returned
    /\ \E c \in Cells :
        /\ land_use_type[c] = PaddyType
        /\ Flooded(forcing[c])
        /\ Frozen(soil[c], forcing[c])
        /\ availWaterSum(forcing[c]) > 0
        /\ local[c].directRunoff > 0
        /\ local[c].openWaterEvap > 0

\* ---------------------------------------------------------------- C2

\* C2 -- bounds invariant: after every call that started inside the bounds and
\* whose driving fluxes are non-negative, every soil cell has
\* wres_i <= w_i <= ws_i for i = 1, 2, 3 and topwater >= 0.
C2_BoundsInvariant ==
    (nsteps > 0 /\ PreInBounds /\ ContractMet) =>
        \A c \in Cells :
            IsBio(land_use_type[c]) => InBounds(soil[c], CellState(Self, c))

\* ---------------------------------------------------------------- C3

\* C3 -- frost gating: for every soil cell whose FrostIndex exceeds
\* FrostIndexThreshold in a call, each of actTransTotal, actBareSoilEvap,
\* prefFlow, infiltration, perc1to2 and perc2to3 that the call has computed is 0.
C3_FrostGating ==
    nsteps > 0 =>
        \A c \in Cells :
            (IsBio(land_use_type[c]) /\ Frozen(soil[c], forcing[c])) =>
                /\ Done(raisedLine, 302) =>
                    (local[c].actTransTotal = 0 /\ actTransTotal[c] = 0)
                /\ Done(raisedLine, 314) =>
                    (local[c].actBareSoilEvap = 0 /\ actBareSoilEvap[c] = 0)
                /\ Done(raisedLine, 352) => local[c].prefFlow = 0
                /\ Done(raisedLine, 360) => local[c].infiltration = 0
                /\ Done(raisedLine, 552) =>
                    (local[c].perc1to2 = 0 /\ local[c].perc2to3 = 0)

\* a call returned for a frozen soil cell that is not a paddy, has water to
\* infiltrate, evaporative demand and water above wilting point in layer 1
C3_FrozenCellWithDemand ==
    /\ Returned
    /\ \E c \in Cells :
        /\ IsBio(land_use_type[c])
        /\ land_use_type[c] # PaddyType
        /\ Frozen(soil[c], forcing[c])
        /\ local[c].avail > 0
        /\ local[c].potInf > 0
        /\ forcing[c].potTranspiration > 0
        /\ forcing[c].potBareSoilEvap > 0
        /\ pre[c].w1 > soil[c].wwp1
        /\ local[c].perc3toGW > 0

\* ---------------------------------------------------------------- C4

\* the cell gets no water, no groundwater rise and no evaporative demand
ZeroForced(f) ==
    /\ availWaterSum(f) = 0
    /\ f.capillar = 0
    /\ f.potTranspiration = 0
    /\ f.potBareSoilEvap = 0
    /\ f.EWRef = 0
    /\ f.openWaterEvap = 0

\* C4 as stated -- zero forcing leaves the cell unchanged: a soil cell with zero
\* available water, zero capillary rise and zero potential ET gets zero
\* infiltration, zero direct runoff and zero groundwater recharge, and w1, w2,
\* w3 after the call equal their values before it.
C4_ZeroForcingUnchanged ==
    Returned =>
        \A c \in Cells :
            (IsBio(land_use_type[c]) /\ ZeroForced(forcing[c])) =>
                /\ local[c].infiltration = 0
                /\ local[c].directRunoff = 0
                /\ local[c].groundwater_recharge = 0
                /\ w1[c] = pre[c].w1
                /\ w2[c] = pre[c].w2
                /\ w3[c] = pre[c].w3

\* C4 amended -- a soil cell with zero available water, zero capillary rise,
\* zero potential ET and no ponded water gets zero infiltration, direct runoff,
\* preferential flow and evapotranspiration; its storages change by the
\* capillary rise between the layers and the percolation only, so that w1 + w2
\* + w3 falls by exactly perc3toGW, and interflow and groundwater recharge are
\* the two shares of perc3toGW.
C4_ZeroForcingDrainsOnly ==
    Returned =>
        \A c \in Cells :
            (IsBio(land_use_type[c]) /\ ZeroForced(forcing[c])
             /\ pre[c].topwater = 0) =>
                /\ local[c].infiltration = 0
                /\ local[c].directRunoff = 0
                /\ local[c].prefFlow = 0
                /\ local[c].openWaterEvap = 0
                /\ actTransTotal[c] = 0
                /\ actBareSoilEvap[c] = 0
                /\ actualET[c] = pre[c].actualET
                /\ topwater[c] = 0
                /\ w1[c] = pre[c].w1 + local[c].capRise1 - local[c].perc1to2
                /\ w2[c] = pre[c].w2 - local[c].capRise1 + local[c].capRise2
                           + local[c].perc1to2 - local[c].perc2to3
                /\ w3[c] = pre[c].w3 - local[c].capRise2 + local[c].perc2to3
                           - local[c].perc3toGW
                /\ local[c].interflow
                       = (soil[c].percolationImp * local[c].perc3toGW) \div Q
                /\ local[c].groundwater_recharge
                       = ((Q - soil[c].percolationImp) * local[c].perc3toGW) \div Q

\* a call returned for a zero-forced soil cell without ponding that drained:
\* water percolated between the layers and to the groundwater
C4_ZeroForcedCellDrained ==
    /\ Returned
    /\ \E c \in Cells :
        /\ IsBio(land_use_type[c])
        /\ ZeroForced(forcing[c])
        /\ pre[c].topwater = 0
        /\ local[c].perc1to2 > 0
        /\ local[c].perc3toGW > 0
        /\ local[c].groundwater_recharge > 0
        /\ w3[c] # pre[c].w3

\* ---------------------------------------------------------------- C5

\* C5 -- non-negative storages after percolation, frozen cells included: a call
\* that started inside the bounds with non-negative driving fluxes fails none
\* of the asserts w1 >= 0, w2 >= 0, w3 >= 0 of lines 557-561, and after the
\* commit of the percolation all three storages of every cell are >= 0.
C5_NonNegativeAfterPercolation ==
    (nsteps > 0 /\ PreInBounds /\ ContractMet) =>
        /\ raisedLine \notin {557, 559, 561}
        /\ Done(raisedLine, 560) =>
            \A c \in Cells : w1[c] >= 0 /\ w2[c] >= 0 /\ w3[c] >= 0

\* ---------------------------------------------------------------- C6

\* the storages w are inside [0, ws]
InCapacity(p, w) ==
    /\ 0 <= w.w1 /\ w.w1 <= p.ws1
    /\ 0 <= w.w2 /\ w.w2 <= p.ws2
    /\ 0 <= w.w3 /\ w.w3 <= p.ws3

\* C6 -- capacity bound after every phase: in a call that started inside the
\* bounds with non-negative driving fluxes, no assert on the storages fails,
\* and at the end of each phase that has run (groundwater cascade,
\* transpiration, bare soil evaporation, infiltration cascade, capillary rise
\* between the layers, percolation) every layer has 0 <= w_i <= ws_i.
C6_CapacityAfterEveryPhase ==
    (nsteps > 0 /\ PreInBounds /\ ContractMet) =>
        /\ raisedLine \in {0, 184, 346}
        /\ \A c \in Cells :
            IsBio(land_use_type[c]) =>
                /\ Done(raisedLine, 214) => InCapacity(soil[c], local[c].wGW)
                /\ Done(raisedLine, 296) => InCapacity(soil[c], local[c].wTa)
                /\ Done(raisedLine, 316) => InCapacity(soil[c], local[c].wEv)
                /\ Done(raisedLine, 382) => InCapacity(soil[c], local[c].wInf)
                /\ Done(raisedLine, 429) => InCapacity(soil[c], local[c].wCap)
                /\ Done(raisedLine, 560) => InCapacity(soil[c], local[c].wPerc)

\* ---------------------------------------------------------------- C7

\* C7 -- every flux that soil.dynamic returns (interflow, directRunoff,
\* groundwater_recharge, perc3toGW, prefFlow, openWaterEvap) is >= 0 for every
\* cell, for a call that started inside the bounds with an available water sum
\* that passes line 184 and otherwise non-negative driving fluxes.
C7_ReturnedFluxesNonNegative ==
    (Returned /\ PreInBounds) =>
        \A c \in Cells :
            /\ local[c].interflow >= 0
            /\ local[c].directRunoff >= 0
            /\ local[c].groundwater_recharge >= 0
            /\ local[c].perc3toGW >= 0
            /\ local[c].prefFlow >= 0
            /\ local[c].openWaterEvap >= 0

\* a call returned in which one cell produced runoff, preferential flow,
\* percolation to groundwater, interflow and recharge, and a paddy cell
\* evaporated open water
C7_AllFluxesFlow ==
    /\ Returned
    /\ \E c \in Cells :
        /\ local[c].directRunoff > 0
        /\ local[c].prefFlow > 0
        /\ local[c].perc3toGW > 0
        /\ local[c].interflow > 0
        /\ local[c].groundwater_recharge > 0
    /\ \E c \in Cells : local[c].openWaterEvap > 0

\* ---------------------------------------------------------------- C8

\* the driving arrays fa with the available water sum of cell c set to zero
WithZeroSum(fa, c) ==
    [fa EXCEPT ![c].natural_available_water_infiltration = 0,
               ![c].actual_irrigation_consumption = 0]

\* C8 -- input contract: when the available water sum of some cell is below
\* -Tol the call raises at line 184 and w1, w2, w3, topwater are what they were
\* on entry; when the sum of a cell is negative but not below -Tol (and no
\* cell's is below) line 184 passes and the call gives that cell exactly what
\* it gives it for a sum of zero.
C8_InputContract ==
    nsteps > 0 =>
        /\ (\E c \in Cells : availWaterSum(forcing[c]) < 0 - Tol) =>
            /\ raisedLine = 184
            /\ \A c \in Cells :
                /\ w1[c] = pre[c].w1
                /\ w2[c] = pre[c].w2
                /\ w3[c] = pre[c].w3
                /\ topwater[c] = pre[c].topwater
        /\ (\A c \in Cells : availWaterSum(forcing[c]) >= 0 - Tol) =>
            /\ raisedLine # 184
            /\ \A c \in Cells :
                availWaterSum(forcing[c]) < 0 =>
                    LET zero == dynamicOf(Before, WithZeroSum(forcing, c))
                    IN  /\ zero.raisedLine = raisedLine
                        /\ zero.local[c] = local[c]
                        /\ CellState(zero, c) = CellState(Self, c)

\* the second call of a run raised at line 184 for a sum below -Tol, after a
\* first call that changed the storages
C8_FatalOnSecondCall ==
    /\ nsteps = 2
    /\ raisedLine = 184
    /\ \E c \in Cells :
        /\ availWaterSum(forcing[c]) < 0 - Tol
        /\ IsBio(land_use_type[c])
        /\ w1[c] # Level(soil[c], 1, 1)
        /\ w1[c] # Level(soil[c], 1, 3)
        /\ w1[c] # Level(soil[c], 1, 4)

\* ---------------------------------------------------------------- C9

\* C9 -- cells outside bioarea are untouched: after every call, w1, w2, w3,
\* topwater, actualET, actTransTotal and actBareSoilEvap of a cell with
\* land_use_type >= BioLimit are what they were on entry, and a call that
\* returns gives that cell interflow, directRunoff, groundwater_recharge,
\* perc3toGW and prefFlow of zero.
C9_OtherCellsUntouched ==
    nsteps > 0 =>
        \A c \in Cells :
            land_use_type[c] >= BioLimit =>
                /\ CellState(Self, c) = pre[c]
                /\ Returned =>
                    /\ local[c].interflow = 0
                    /\ local[c].directRunoff = 0
                    /\ local[c].groundwater_recharge = 0
                    /\ local[c].perc3toGW = 0
                    /\ local[c].prefFlow = 0

\* a call returned that gave water to a cell outside bioarea and changed a soil
\* cell beside it
C9_OtherCellBesideActiveCell ==
    /\ Returned
    /\ \E c \in Cells :
        /\ land_use_type[c] >= BioLimit
        /\ availWaterSum(forcing[c]) > 0
        /\ forcing[c].capillar > 0
        /\ forcing[c].potTranspiration > 0
    /\ \E c \in Cells :
        /\ IsBio(land_use_type[c])
        /\ CellState(Self, c) # pre[c]
        /\ local[c].groundwater_recharge > 0

\* --------------------------------------------------------------- C10

\* the model object after the last call, with the call's locals and outcome
Last ==
    [w1 |-> w1, w2 |-> w2, w3 |-> w3, topwater |-> topwater,
     actualET |-> actualET, actTransTotal |-> actTransTotal,
     actBareSoilEvap |-> actBareSoilEvap,
     local |-> local, raisedLine |-> raisedLine]

\* the land use maps that agree with lut on cell c and make every other cell
\* grassland (1) or sealed (4)
OtherLandUse(lut, c) ==
    { m \in [DOMAIN lut -> {1, 4, lut[c]}] :
        /\ m[c] = lut[c]
        /\ \A d \in DOMAIN lut : d # c => m[d] \in {1, 4} }

\* soil.py:626 and the self.var entries -- what a call leaves for cell c: how
\* it ended, the cell's state, and its entries of the returned arrays
CellResult(n, c) ==
    [raised |-> n.raisedLine,
     state |-> CellState(n, c),
     returned |-> IF n.raisedLine = 0
                  THEN <<n.local[c].interflow, n.local[c].directRunoff,
                         n.local[c].groundwater_recharge, n.local[c].perc3toGW,
                         n.local[c].prefFlow, n.local[c].openWaterEvap>>
                  ELSE <<>>]

\* C10 -- cross-cell independence: the result of a call for a soil cell (the
\* cell's new state and returned fluxes) is the same in every call that agrees
\* on that cell's land use type, parameters, cPrefFlow, state and driving
\* values and differs in the land use types of the other cells; compared are
\* calls in which no assert fails.
C10_CrossCellIndependence ==
    (nsteps > 0 /\ raisedLine \in {0, 346}) =>
        \A c \in Cells :
            IsBio(land_use_type[c]) =>
                \A lut \in OtherLandUse(land_use_type, c) :
                    LET other == dynamicOf([Before EXCEPT !.land_use_type = lut],
                                           forcing)
                    IN  other.raisedLine \in {0, 346} =>
                            CellResult(other, c) = CellResult(Last, c)

\* --------------------------------------------------------------- C11

\* C11 -- groundwater capillary-rise cascade: once lines 205-214 have run, for
\* every soil cell w3 = min(ws3, w3 + capillar), the excess above ws3 is in
\* layer 2, the excess above ws2 in layer 1, the excess above ws1 is
\* saverunofffromGW, and w1 + w2 + w3 + saverunofffromGW equals w1 + w2 + w3 +
\* capillar on entry; with w3 = ws3 on entry all of capillar leaves layer 3, and
\* with w3 + capillar <= ws3 all of it stays in layer 3 without runoff.
C11_GroundwaterCascade ==
    (nsteps > 0 /\ Done(raisedLine, 214)) =>
        \A c \in Cells :
            IsBio(land_use_type[c]) =>
                LET p    == soil[c]
                    cap  == forcing[c].capillar
                    over3 == Max(0, pre[c].w3 + cap - p.ws3)
                    over2 == Max(0, pre[c].w2 + over3 - p.ws2)
                    over1 == Max(0, pre[c].w1 + over2 - p.ws1)
                    g    == local[c].wGW
                IN  /\ g.w3 = Min(p.ws3, pre[c].w3 + cap)
                    /\ g.w2 = pre[c].w2 + over3 - over2
                    /\ g.w1 = pre[c].w1 + over2 - over1
                    /\ local[c].saverunofffromGW = over1
                    /\ g.w1 + g.w2 + g.w3 + local[c].saverunofffromGW
                           = pre[c].w1 + pre[c].w2 + pre[c].w3 + cap
                    /\ pre[c].w3 = p.ws3 =>
                           (g.w3 = p.ws3 /\ over3 = cap)
                    /\ pre[c].w3 + cap <= p.ws3 =>
                           /\ g.w3 = pre[c].w3 + cap
                           /\ g.w2 = pre[c].w2
                           /\ g.w1 = pre[c].w1
                           /\ local[c].saverunofffromGW = 0

\* a call returned for a saturated soil cell with groundwater rise: the rise
\* went through all three layers into saverunofffromGW and the direct runoff
C11_RiseThroughSaturatedColumn ==
    /\ Returned
    /\ \E c \in Cells :
        /\ IsBio(land_use_type[c])
        /\ forcing[c].capillar > 0
        /\ pre[c].w3 = soil[c].ws3
        /\ local[c].saverunofffromGW = forcing[c].capillar
        /\ local[c].directRunoff >= local[c].saverunofffromGW

\* --------------------------------------------------------------- C12

\* C12 -- paddy ponding and runoff: in a call that returns, for a paddy cell
\* with cropKC > 0.75 the available water is added to topwater, openWaterEvap
\* = min(topwater, EWRef) is removed, the infiltration is subtracted, and
\* directRunoff is max(0, topwater - infiltration - maxtopwater) plus
\* saverunofffromGW; at the end 0 <= topwater <= maxtopwater.
C12_PaddyPonding ==
    Returned =>
        \A c \in Cells :
            (land_use_type[c] = PaddyType /\ Flooded(forcing[c])) =>
                LET ponded == pre[c].topwater + Max(0, availWaterSum(forcing[c]))
                    owe    == Min(ponded, forcing[c].EWRef)
                    left   == ponded - owe - local[c].infiltration
                    spill  == Max(0, left - soil[c].maxtopwater)
                IN  /\ local[c].openWaterEvap = owe
                    /\ local[c].topwater1 = ponded - owe
                    /\ local[c].avail = ponded - owe
                    /\ local[c].infiltration <= ponded - owe
                    /\ local[c].directRunoff = spill + local[c].saverunofffromGW
                    /\ topwater[c] = left - spill
                    /\ topwater[c] <= soil[c].maxtopwater
                    /\ topwater[c] >= 0

\* a call returned for a flooded paddy cell that received water, evaporated
\* open water, infiltrated and spilled the ponding above maxtopwater
C12_FloodedPaddySpills ==
    /\ Returned
    /\ \E c \in Cells :
        /\ land_use_type[c] = PaddyType
        /\ Flooded(forcing[c])
        /\ availWaterSum(forcing[c]) > 0
        /\ local[c].openWaterEvap > 0
        /\ local[c].infiltration > 0
        /\ local[c].directRunoff > local[c].saverunofffromGW
        /\ topwater[c] = soil[c].maxtopwater

\* --------------------------------------------------------------- C13

\* C13 -- frost threshold as in the variable table (line 80: stops
\* infiltration, percolation and capillary rise): for a soil cell whose
\* FrostIndex exceeds FrostIndexThreshold the call computes infiltration = 0,
\* capRise1 = capRise2 = 0 and perc1to2 = perc2to3 = perc3toGW = 0.
C13_FrostStopsAllFluxes ==
    nsteps > 0 =>
        \A c \in Cells :
            (IsBio(land_use_type[c]) /\ Frozen(soil[c], forcing[c])) =>
                /\ Done(raisedLine, 360) => local[c].infiltration = 0
                /\ Done(raisedLine, 429) =>
                    (local[c].capRise1 = 0 /\ local[c].capRise2 = 0)
                /\ Done(raisedLine, 552) =>
                    /\ local[c].perc1to2 = 0
                    /\ local[c].perc2to3 = 0
                    /\ local[c].perc3toGW = 0

\* --------------------------------------------------------------- C14

C15_TranspirationExtraction ==
    (nsteps > 0 /\ Done(raisedLine, 302)) =>
        \A c \in Cells :
            IsBio(land_use_type[c]) =>
                LET p   == soil[c]
                    g   == local[c].wGW
                    t   == local[c].wTa
                    tm  == TaMax(land_use_type[c], p, forcing[c], g)
                    ta1 == Max(0, Min((tm * p.adjRoot1) \div Q, g.w1 - p.wwp1))
                    ta2 == Max(0, Min((tm * p.adjRoot2) \div Q, g.w2 - p.wwp2))
                    ta3 == Max(0, Min((tm * p.adjRoot3) \div Q, g.w3 - p.wwp3))
                IN  /\ t.w1 = g.w1 - ta1
                    /\ t.w2 = g.w2 - ta2
                    /\ t.w3 = g.w3 - ta3
                    /\ local[c].actTransTotal = ta1 + ta2 + ta3
                    /\ actTransTotal[c] = ta1 + ta2 + ta3
                    /\ g.w1 >= p.wwp1 => t.w1 >= p.wwp1
                    /\ g.w2 >= p.wwp2 => t.w2 >= p.wwp2
                    /\ g.w3 >= p.wwp3 => t.w3 >= p.wwp3
                    /\ g.w1 <= p.wwp1 => t.w1 = g.w1
                    /\ g.w2 <= p.wwp2 => t.w2 = g.w2
                    /\ g.w3 <= p.wwp3 => t.w3 = g.w3
                    /\ t.w1 >= 0 /\ t.w2 >= 0 /\ t.w3 >= 0

\* a call returned for an unfrozen soil cell with transpiration demand whose
\* layer 1 was below wilting point and gave nothing, while a lower layer was
\* drawn down by the plants
C15_DryTopLayerSpared ==
    /\ Returned
    /\ \E c \in Cells :
        /\ IsBio(land_use_type[c])
        /\ forcing[c].potTranspiration > 0
        /\ ~Frozen(soil[c], forcing[c])
        /\ local[c].wGW.w1 < soil[c].wwp1
        /\ local[c].wTa.w1 = local[c].wGW.w1
        /\ local[c].actTransTotal > 0

\* --------------------------------------------------------------- C16

\* C16 -- bare soil evaporation: once lines 309-316 have run, for every soil
\* cell actBareSoilEvap = min(potBareSoilEvap, max(0, w1 - wres1)) on w1 after
\* transpiration, 0 when the cell is frozen, 0 for a paddy cell whose topwater
\* after open water evaporation is > 0; it is subtracted from w1 and does not
\* lower w1 below wres1; for a paddy cell potBareSoilEvap is the argument minus
\* openWaterEvap, floored at 0.
C16_BareSoilEvaporation ==
    (nsteps > 0 /\ Done(raisedLine, 316)) =>
        \A c \in Cells :
            IsBio(land_use_type[c]) =>
                LET p     == soil[c]
                    paddy == land_use_type[c] = PaddyType
                    pot   == IF paddy
                             THEN Max(0, forcing[c].potBareSoilEvap - local[c].openWaterEvap)
                             ELSE forcing[c].potBareSoilEvap
                    w1t   == local[c].wTa.w1
                    evap  == IF Frozen(p, forcing[c]) \/ (paddy /\ local[c].topwater1 > 0)
                             THEN 0
                             ELSE Min(pot, Max(0, w1t - p.wres1))
                IN  /\ local[c].potBareSoilEvap = pot
                    /\ local[c].actBareSoilEvap = evap
                    /\ actBareSoilEvap[c] = evap
                    /\ local[c].wEv.w1 = w1t - evap
                    /\ local[c].wEv.w2 = local[c].wTa.w2
                    /\ local[c].wEv.w3 = local[c].wTa.w3
                    /\ w1t >= p.wres1 => local[c].wEv.w1 >= p.wres1
                    /\ w1t <= p.wres1 => evap = 0

\* a call returned for an unfrozen paddy cell without ponding left whose open
\* water evaporation reduced the potential and whose layer 1 then evaporated
C16_PaddyEvaporatesUnderReducedPotential ==
    /\ Returned
    /\ \E c \in Cells :
        /\ land_use_type[c] = PaddyType
        /\ ~Frozen(soil[c], forcing[c])
        /\ local[c].openWaterEvap > 0
        /\ local[c].topwater1 = 0
        /\ local[c].potBareSoilEvap > 0
        /\ local[c].potBareSoilEvap < forcing[c].potBareSoilEvap
        /\ local[c].actBareSoilEvap > 0

\* --------------------------------------------------------------- C17

\* C17 -- infiltration/runoff partition: once lines 346-374 have run, for every
\* soil cell that is not a paddy, infiltration = min(potInf, avail - prefFlow),
\* 0 when frozen; directRunoff before saverunofffromGW is added is max(0, avail
\* - infiltration - prefFlow); infiltration + prefFlow + that runoff = avail;
\* infiltration <= potInf; a frozen cell sends all of avail to direct runoff.
C17_InfiltrationPartition ==
    (nsteps > 0 /\ Done(raisedLine, 374)) =>
        \A c \in Cells :
            (IsBio(land_use_type[c]) /\ land_use_type[c] # PaddyType) =>
                LET r      == local[c]
                    frozen == Frozen(soil[c], forcing[c])
                    inf    == IF frozen THEN 0
                              ELSE Min(r.potInf, r.avail - r.prefFlow)
                    runoff == r.directRunoff - r.saverunofffromGW
                IN  /\ r.avail = Max(0, availWaterSum(forcing[c]))
                    /\ r.infiltration = inf
                    /\ runoff = Max(0, r.avail - inf - r.prefFlow)
                    /\ r.infiltration + r.prefFlow + runoff = r.avail
                    /\ r.infiltration <= r.potInf
                    /\ r.infiltration >= 0
                    /\ frozen => (runoff = r.avail /\ r.prefFlow = 0)

\* a call returned for an unfrozen soil cell, not a paddy, whose available
\* water was split three ways: preferential flow, infiltration at the limit
\* potInf, and the rest as direct runoff
C17_ThreeWaySplit ==
    /\ Returned
    /\ \E c \in Cells :
        /\ IsBio(land_use_type[c])
        /\ land_use_type[c] # PaddyType
        /\ ~Frozen(soil[c], forcing[c])
        /\ local[c].prefFlow > 0
        /\ local[c].infiltration > 0
        /\ local[c].infiltration = local[c].potInf
        /\ local[c].directRunoff > local[c].saverunofffromGW

\* --------------------------------------------------------------- C18

\* soil.py:448-460, 487-498 -- the three conductivities for the storages w
kUnSatOfStorages(p, w) ==
    [kUnSat1 |-> kUnSatOf(p.KSat1, satTermOf(Max(0, w.w1 - p.wres1), p.ws1, p.wres1), p.lambda1),
     kUnSat2 |-> kUnSatOf(p.KSat2, satTermOf(Max(0, w.w2 - p.wres2), p.ws2, p.wres2), p.lambda2),
     kUnSat3 |-> kUnSatOf(p.KSat3, satTermOf(Max(0, w.w3 - p.wres3), p.ws3, p.wres3), p.lambda3)]

\* soil.py:485-521 -- a pass that recomputes the conductivities from wtemp
RecomputedPass(p, f, L) ==
    PercPass(p, f, L, kUnSatOfStorages(p, [w1 |-> L.wtemp1, w2 |-> L.wtemp2,
                                           w3 |-> L.wtemp3]))

\* soil.py:484-521 -- three passes over the storages w, the first with the
\* conductivities k0, the second and third with recomputed ones
ThreePasses(p, f, w, k0) ==
    RecomputedPass(p, f, RecomputedPass(p, f, PercPass(p, f, PercInit(p, w), k0)))

\* the percolation a call has committed for cell c is that of the loop sums L:
\* perc1to2 and perc2to3 zeroed under frost, w1, w2, w3 changed once, after
\* the loop, by the committed fluxes
CommittedFrom(c, L) ==
    LET r  == local[c]
        fr == Frozen(soil[c], forcing[c])
    IN  /\ r.perc1to2 = (IF fr THEN 0 ELSE L.perc1to2)
        /\ r.perc2to3 = (IF fr THEN 0 ELSE L.perc2to3)
        /\ r.perc3toGW = L.perc3toGW
        /\ r.wPerc.w1 = r.wCap.w1 - r.perc1to2
        /\ r.wPerc.w2 = r.wCap.w2 + r.perc1to2 - r.perc2to3
        /\ r.wPerc.w3 = r.wCap.w3 + r.perc2to3 - r.perc3toGW

\* C18 as stated -- sub-stepped percolation: the loop runs 3 passes, the first
\* with the conductivities of the storages before the capillary rise between
\* the layers was applied (those of lines 390-408), the second and third with
\* conductivities recomputed from the temporary storages; w1, w2, w3 change
\* only after the loop.
C18_FirstPassBeforeCapRise ==
    (nsteps > 0 /\ Done(raisedLine, 560)) =>
        \A c \in Cells :
            IsBio(land_use_type[c]) =>
                CommittedFrom(c, ThreePasses(soil[c], forcing[c], local[c].wCap,
                                             kUnSatOfStorages(soil[c], local[c].wInf)))

\* C18 amended -- the loop runs 3 passes, the first with the conductivities
\* that lines 440-460 compute from the storages after the capillary rise
\* between the layers was applied, the second and third with conductivities
\* recomputed from the temporary storages; w1, w2, w3 change only after the
\* loop, by the committed fluxes.
C18_FirstPassAfterCapRise ==
    (nsteps > 0 /\ Done(raisedLine, 560)) =>
        \A c \in Cells :
            IsBio(land_use_type[c]) =>
                CommittedFrom(c, ThreePasses(soil[c], forcing[c], local[c].wCap,
                                             kUnSatOfStorages(soil[c], local[c].wCap)))

\* a call returned for an unfrozen soil cell with capillary rise between the
\* layers and percolation in which the conductivities before and after the
\* rise give different percolation
C18_CapRiseChangesFirstPass ==
    /\ Returned
    /\ \E c \in Cells :
        /\ IsBio(land_use_type[c])
        /\ ~Frozen(soil[c], forcing[c])
        /\ local[c].capRise1 + local[c].capRise2 > 0
        /\ local[c].perc1to2 > 0
        /\ local[c].perc2to3 > 0
        /\ local[c].perc3toGW > 0
        /\ ~CommittedFrom(c, ThreePasses(soil[c], forcing[c], local[c].wCap,
                                         kUnSatOfStorages(soil[c], local[c].wInf)))

\* --------------------------------------------------------------- C19

\* soil.py:615-622 -- the balance error of the second waterBalanceCheck, with
\* actualET on entry standing for snowEvap + interceptEvap
fullBalanceError(c) ==
    LET d == (influxes(c) + pre[c].actualET)
             - (local[c].directRunoff + local[c].interflow
                + local[c].groundwater_recharge + actualET[c])
             - (poststorages(c) - prestorages(c))
    IN  IF d < 0 THEN 0 - d ELSE d

\* C19 -- actual ET accumulation: for every soil cell actualET never decreases
\* in a call; once line 584 has run it is actualET on entry plus
\* actBareSoilEvap + openWaterEvap + actTransTotal of the call; and in a call
\* that returns the full balance, (inflows + actualET on entry) - (directRunoff
\* + interflow + groundwater_recharge + actualET), equals the change of w1 + w2
\* + w3 + topwater within Tol (within the rounding of the recharge split when
\* the available water sum is not negative).
C19_ActualETAccumulation ==
    nsteps > 0 =>
        \A c \in Cells :
            IsBio(land_use_type[c]) =>
                /\ actualET[c] >= pre[c].actualET
                /\ Done(raisedLine, 584) =>
                    actualET[c] = pre[c].actualET + actBareSoilEvap[c]
                                  + local[c].openWaterEvap + actTransTotal[c]
                /\ ~Done(raisedLine, 584) => actualET[c] = pre[c].actualET
                /\ Returned =>
                    /\ fullBalanceError(c) <= Tol
                    /\ availWaterSum(forcing[c]) >= 0 => fullBalanceError(c) <= 1

\* the second call of a run returned for a paddy cell that entered it with
\* actualET > 0 and added open water evaporation, bare soil evaporation and
\* transpiration to it
C19_AccumulatedOverTwoCalls ==
    /\ Returned
    /\ nsteps = 2
    /\ \E c \in Cells :
        /\ land_use_type[c] = PaddyType
        /\ pre[c].actualET > 0
        /\ local[c].openWaterEvap > 0
        /\ actBareSoilEvap[c] > 0
        /\ actTransTotal[c] > 0
        /\ local[c].groundwater_recharge > 0

\* --------------------------------------------------------------- C20

\* C20 -- a paddy cell that is not flooded (cropKC <= 0.75) releases its ponded
\* water: once line 374 has run, the open water evaporation is
\* min(max(0, topwater on entry), EWRef), all topwater left after it is added
\* to the available infiltration water, no preferential flow is taken from
\* it, infiltration and the runoff before saverunofffromGW add up to the
\* available water (all of it runoff under frost), and topwater is 0.
C20_UnfloodedPaddyReleasesPond ==
    (nsteps > 0 /\ Done(raisedLine, 374)) =>
        \A c \in Cells :
            (land_use_type[c] = PaddyType /\ ~Flooded(forcing[c])) =>
                /\ local[c].openWaterEvap
                       = Min(Max(0, pre[c].topwater), forcing[c].EWRef)
                /\ local[c].topwater1 = pre[c].topwater - local[c].openWaterEvap
                /\ local[c].avail
                       = local[c].topwater1 + availWaterClamped(forcing[c])
                /\ local[c].prefFlow = 0
                /\ local[c].infiltration
                       + (local[c].directRunoff - local[c].saverunofffromGW)
                       = local[c].avail
                /\ Frozen(soil[c], forcing[c]) =>
                       /\ local[c].infiltration = 0
                       /\ local[c].directRunoff - local[c].saverunofffromGW
                              = local[c].avail
                /\ local[c].topwater = 0
                /\ topwater[c] = 0

\* a frozen paddy cell that is not flooded entered a call with ponded water,
\* kept some of it after the open water evaporation and returned with none
C20_FrozenPaddyDrained ==
    /\ Returned
    /\ \E c \in Cells :
        /\ land_use_type[c] = PaddyType
        /\ ~Flooded(forcing[c])
        /\ Frozen(soil[c], forcing[c])
        /\ pre[c].topwater > 0
        /\ local[c].topwater1 > 0
        /\ local[c].directRunoff > 0
        /\ topwater[c] = 0

====
